---------------------------- MODULE Spec2Model ----------------------------
(***************************************************************************)
(* The data-preparation code of Finetuning/DPO_Finetuning.ipynb:           *)
(*   convert_to_preference_dataset      raw examples -> preference records *)
(*   the preference JSONL write loops   preference records -> two files    *)
(*   convert_preference_to_sft_format   preference record -> SFT record    *)
(*   process_preference_to_sft          preference records -> one SFT file *)
(*                                                                         *)
(* Python values are modelled as follows.  A str is a sequence of          *)
(* one-character strings; a list is a sequence; a dict is a function whose *)
(* DOMAIN is the set of its keys (subscripting with a key outside the      *)
(* DOMAIN is Python's KeyError).  A file is the sequence of characters it  *)
(* holds.  A call that may raise returns an outcome: Return(v) or          *)
(* Raise(e).                                                               *)
(***************************************************************************)
EXTENDS Integers, Sequences, FiniteSets, TLC

\* Bounds of the model.
MaxExamples == 3       \* raw examples in the dataset, both splits together
MaxRecords == 2        \* records of the split handed to process_preference_to_sft
MaxWriteFailures == 1  \* writes that the file system lets fail in one run
MaxPartial == 2        \* characters a failed write may still have put in the file
MaxServiceIds == 7     \* ids the fine-tuning service gives out in one session

-----------------------------------------------------------------------------
(* Strings *)

NL == "\n"
QUOTE == "\""
BACKSLASH == "\\"

User == <<"u", "s", "e", "r">>
Assistant == <<"a", "s", "s", "i", "s", "t", "a", "n", "t">>

\* The characters of the keys json.dumps writes.
KeyChars(k) ==
    CASE k = "role" -> <<"r", "o", "l", "e">>
      [] k = "content" -> <<"c", "o", "n", "t", "e", "n", "t">>
      [] k = "messages" -> <<"m", "e", "s", "s", "a", "g", "e", "s">>
      [] k = "input" -> <<"i", "n", "p", "u", "t">>
      [] k = "preferred_output" ->
            <<"p", "r", "e", "f", "e", "r", "r", "e", "d", "_",
              "o", "u", "t", "p", "u", "t">>
      [] k = "non_preferred_output" ->
            <<"n", "o", "n", "_", "p", "r", "e", "f", "e", "r", "r", "e", "d", "_",
              "o", "u", "t", "p", "u", "t">>

-----------------------------------------------------------------------------
(* Outcomes of a call *)

Return(v) == [ok |-> TRUE, value |-> v]
Raise(e) == [ok |-> FALSE, exc |-> e]
KeyError(k) == [type |-> "KeyError", key |-> k]
OSError == [type |-> "OSError"]

\* d[k] of a dict d.
HasKey(d, k) == k \in DOMAIN d

-----------------------------------------------------------------------------
(* convert_to_preference_dataset: the body of its inner loop *)

\* A faulty variant of PreferenceFormat: the chosen and the rejected response
\* change places.
PreferenceFormatSwapped(example) ==
    IF DOMAIN example # {"prompt", "chosen_response", "rejected_response"}
    THEN Raise(KeyError("prompt"))
    ELSE Return([input |-> [messages |->
                    << [role |-> User, content |-> example["prompt"]] >>],
                 preferred_output |->
                    << [role |-> Assistant, content |-> example["rejected_response"]] >>,
                 non_preferred_output |->
                    << [role |-> Assistant, content |-> example["chosen_response"]] >>])

\* The record one iteration appends: example["prompt"], example["chosen_response"]
\* and example["rejected_response"] are subscripted in this order, and the
\* first key that is missing raises.
PreferenceFormat(example) ==
    IF ~HasKey(example, "prompt") THEN Raise(KeyError("prompt"))
    ELSE LET messages == << [role |-> User, content |-> example["prompt"]] >> IN
    IF ~HasKey(example, "chosen_response") THEN Raise(KeyError("chosen_response"))
    ELSE LET preferred_output ==
                << [role |-> Assistant, content |-> example["chosen_response"]] >> IN
    IF ~HasKey(example, "rejected_response") THEN Raise(KeyError("rejected_response"))
    ELSE LET non_preferred_output ==
                << [role |-> Assistant, content |-> example["rejected_response"]] >> IN
    Return([input |-> [messages |-> messages],
            preferred_output |-> preferred_output,
            non_preferred_output |-> non_preferred_output])

\* The example after one iteration: the loop body only subscripts it, and
\* builds the record from new dicts and lists.
RawAfterFormat(example) == example

-----------------------------------------------------------------------------
(* convert_preference_to_sft_format *)

\* for msg in src: messages.append(msg)
RECURSIVE AppendEach(_, _)
AppendEach(messages, src) ==
    IF src = <<>> THEN messages
    ELSE AppendEach(Append(messages, Head(src)), Tail(src))

\* messages.extend(more)
Extend(messages, more) == messages \o more

\* Faulty variants of convert_preference_to_sft_format: the preferred output
\* is put first; the rejected output is appended as well; missing keys are
\* read as empty lists; a preferred_output of another length than one is
\* refused.
ConvertOneAnswerOnly(data) ==
    IF ~HasKey(data, "input") THEN Raise(KeyError("input"))
    ELSE IF ~HasKey(data["input"], "messages") THEN Raise(KeyError("messages"))
    ELSE IF ~HasKey(data, "preferred_output") THEN Raise(KeyError("preferred_output"))
    ELSE IF Len(data["preferred_output"]) # 1 THEN Raise([type |-> "ValueError"])
    ELSE Return([messages |-> data["input"]["messages"] \o data["preferred_output"]])

ConvertPreferredFirst(data) ==
    IF ~HasKey(data, "input") THEN Raise(KeyError("input"))
    ELSE IF ~HasKey(data["input"], "messages") THEN Raise(KeyError("messages"))
    ELSE IF ~HasKey(data, "preferred_output") THEN Raise(KeyError("preferred_output"))
    ELSE Return([messages |->
                    AppendEach(data["preferred_output"], data["input"]["messages"])])

ConvertWithRejected(data) ==
    IF ~HasKey(data, "input") THEN Raise(KeyError("input"))
    ELSE IF ~HasKey(data["input"], "messages") THEN Raise(KeyError("messages"))
    ELSE IF ~HasKey(data, "preferred_output") THEN Raise(KeyError("preferred_output"))
    ELSE IF ~HasKey(data, "non_preferred_output")
         THEN Raise(KeyError("non_preferred_output"))
    ELSE Return([messages |->
                    Extend(Extend(AppendEach(<<>>, data["input"]["messages"]),
                                  data["preferred_output"]),
                           data["non_preferred_output"])])

ConvertWithDefaults(data) ==
    LET input == IF HasKey(data, "input") THEN data["input"] ELSE <<>>
        msgs == IF HasKey(input, "messages") THEN input["messages"] ELSE <<>>
        preferred == IF HasKey(data, "preferred_output")
                     THEN data["preferred_output"] ELSE <<>>
    IN  Return([messages |-> Extend(AppendEach(<<>>, msgs), preferred)])

convert_preference_to_sft_format(data) ==
    IF ~HasKey(data, "input") THEN Raise(KeyError("input"))
    ELSE IF ~HasKey(data["input"], "messages") THEN Raise(KeyError("messages"))
    ELSE LET messages == AppendEach(<<>>, data["input"]["messages"]) IN
    IF ~HasKey(data, "preferred_output") THEN Raise(KeyError("preferred_output"))
    ELSE Return([messages |-> Extend(messages, data["preferred_output"])])

\* A faulty variant of MessagesList: messages is the record's own list.
MessagesListAliased == "input_messages"

\* The list object the name messages is bound to: messages = [] makes a new
\* one, distinct from the two lists of data.
MessagesList == "new"

\* data after convert_preference_to_sft_format(data) has run, returned or
\* raised.  The call touches three list objects: data["input"]["messages"]
\* and data["preferred_output"], which it reads, and the list bound to
\* messages, which takes every append and the extend.
DataAfterConvert(data) ==
    IF ~HasKey(data, "input") THEN data
    ELSE IF ~HasKey(data["input"], "messages") THEN data
    ELSE LET lists == [input_messages |-> data["input"]["messages"], new |-> <<>>]
             appended == [lists EXCEPT ![MessagesList] =
                              AppendEach(@, lists["input_messages"])]
         IN  IF ~HasKey(data, "preferred_output")
             THEN [data EXCEPT !["input"]["messages"] = appended["input_messages"]]
             ELSE LET extended == [appended EXCEPT ![MessagesList] =
                                       Extend(@, data["preferred_output"])]
                  IN  [data EXCEPT !["input"]["messages"] = extended["input_messages"]]

-----------------------------------------------------------------------------
(* json.dumps, with its defaults: ", " and ": " separators, keys in the    *)
(* dict's insertion order, and the string escapes of ensure_ascii.         *)

\* A faulty variant of EscapeChar: no character is escaped.
EscapeCharUnescaped(c) == <<c>>

EscapeChar(c) ==
    CASE c = QUOTE -> <<BACKSLASH, QUOTE>>
      [] c = BACKSLASH -> <<BACKSLASH, BACKSLASH>>
      [] c = NL -> <<BACKSLASH, "n">>
      [] OTHER -> <<c>>

RECURSIVE Escape(_)
Escape(s) == IF s = <<>> THEN <<>> ELSE EscapeChar(Head(s)) \o Escape(Tail(s))

DumpsStr(s) == <<QUOTE>> \o Escape(s) \o <<QUOTE>>

DumpsKey(k) == DumpsStr(KeyChars(k)) \o <<":", " ">>

\* {"role": ..., "content": ...}
DumpsMessage(m) ==
    <<"{">> \o DumpsKey("role") \o DumpsStr(m["role"]) \o <<",", " ">>
            \o DumpsKey("content") \o DumpsStr(m["content"]) \o <<"}">>

RECURSIVE DumpsItems(_)
DumpsItems(msgs) ==
    IF msgs = <<>> THEN <<>>
    ELSE IF Len(msgs) = 1 THEN DumpsMessage(Head(msgs))
    ELSE DumpsMessage(Head(msgs)) \o <<",", " ">> \o DumpsItems(Tail(msgs))

DumpsList(msgs) == <<"[">> \o DumpsItems(msgs) \o <<"]">>

\* json.dumps(sft_format): {"messages": [...]}
DumpsSft(r) == <<"{">> \o DumpsKey("messages") \o DumpsList(r["messages"]) \o <<"}">>

\* json.dumps(example) of a record built by convert_to_preference_dataset.
DumpsPreference(r) ==
    <<"{">> \o DumpsKey("input")
            \o <<"{">> \o DumpsKey("messages") \o DumpsList(r["input"]["messages"])
            \o <<"}">> \o <<",", " ">>
            \o DumpsKey("preferred_output") \o DumpsList(r["preferred_output"])
            \o <<",", " ">>
            \o DumpsKey("non_preferred_output") \o DumpsList(r["non_preferred_output"])
            \o <<"}">>

-----------------------------------------------------------------------------
(* json.loads, for the JSON that json.dumps writes: objects, lists and     *)
(* strings, spaces between tokens.  A parse is [ok, value, next], next      *)
(* being the position after the value.                                      *)

ParseFail == [ok |-> FALSE]
Parsed(v, next) == [ok |-> TRUE, value |-> v, next |-> next]

Keys == {"role", "content", "messages", "input", "preferred_output",
         "non_preferred_output"}

\* The dict key of an object's member name; every name the records never use
\* is the key "other".
KeyName(chars) ==
    IF \E k \in Keys : KeyChars(k) = chars
    THEN CHOOSE k \in Keys : KeyChars(k) = chars
    ELSE "other"

\* The position of the first character that is not a space, from p on.
RECURSIVE SkipSpaces(_, _)
SkipSpaces(t, p) ==
    IF p <= Len(t) /\ t[p] = " " THEN SkipSpaces(t, p + 1) ELSE p

\* The string whose opening quote is before p: up to the closing quote, with
\* the escapes undone; a control character inside a string is an error.
RECURSIVE ScanString(_, _, _)
ScanString(t, p, acc) ==
    IF p > Len(t) THEN ParseFail
    ELSE IF t[p] = QUOTE THEN Parsed(acc, p + 1)
    ELSE IF t[p] = NL THEN ParseFail
    ELSE IF t[p] = BACKSLASH THEN
        IF p + 1 > Len(t) THEN ParseFail
        ELSE IF t[p + 1] = QUOTE THEN ScanString(t, p + 2, Append(acc, QUOTE))
        ELSE IF t[p + 1] = BACKSLASH THEN ScanString(t, p + 2, Append(acc, BACKSLASH))
        ELSE IF t[p + 1] = "n" THEN ScanString(t, p + 2, Append(acc, NL))
        ELSE ParseFail
    ELSE ScanString(t, p + 1, Append(acc, t[p]))

RECURSIVE ParseValue(_, _)
RECURSIVE ParseItems(_, _, _)
RECURSIVE ParseMembers(_, _, _)

\* The value that starts at p.
ParseValue(t, p) ==
    IF p > Len(t) THEN ParseFail
    ELSE IF t[p] = QUOTE THEN ScanString(t, p + 1, <<>>)
    ELSE IF t[p] = "[" THEN
        LET q == SkipSpaces(t, p + 1) IN
        IF q <= Len(t) /\ t[q] = "]" THEN Parsed(<<>>, q + 1)
        ELSE ParseItems(t, q, <<>>)
    ELSE IF t[p] = "{" THEN
        LET q == SkipSpaces(t, p + 1) IN
        IF q <= Len(t) /\ t[q] = "}" THEN Parsed(<<>>, q + 1)
        ELSE ParseMembers(t, q, <<>>)
    ELSE ParseFail

\* The items of a list from p on, after the items acc.
ParseItems(t, p, acc) ==
    LET v == ParseValue(t, SkipSpaces(t, p)) IN
    IF ~v.ok THEN ParseFail
    ELSE LET q == SkipSpaces(t, v.next) IN
         IF q > Len(t) THEN ParseFail
         ELSE IF t[q] = "," THEN ParseItems(t, q + 1, Append(acc, v.value))
         ELSE IF t[q] = "]" THEN Parsed(Append(acc, v.value), q + 1)
         ELSE ParseFail

\* The members of an object from p on, after the members acc; a name that
\* comes again replaces the earlier member.
ParseMembers(t, p, acc) ==
    LET k == SkipSpaces(t, p) IN
    IF k > Len(t) \/ t[k] # QUOTE THEN ParseFail
    ELSE LET name == ScanString(t, k + 1, <<>>) IN
    IF ~name.ok THEN ParseFail
    ELSE LET c == SkipSpaces(t, name.next) IN
    IF c > Len(t) \/ t[c] # ":" THEN ParseFail
    ELSE LET v == ParseValue(t, SkipSpaces(t, c + 1)) IN
    IF ~v.ok THEN ParseFail
    ELSE LET q == SkipSpaces(t, v.next)
             members == (KeyName(name.value) :> v.value) @@ acc
         IN  IF q > Len(t) THEN ParseFail
             ELSE IF t[q] = "," THEN ParseMembers(t, q + 1, members)
             ELSE IF t[q] = "}" THEN Parsed(members, q + 1)
             ELSE ParseFail

\* json.loads(text)
Loads(text) ==
    LET v == ParseValue(text, SkipSpaces(text, 1)) IN
    IF v.ok /\ SkipSpaces(text, v.next) > Len(text)
    THEN Return(v.value)
    ELSE Raise([type |-> "JSONDecodeError"])

-----------------------------------------------------------------------------
(* Files *)

dpo_train_file_path == "data/helpsteer2_preference_train.jsonl"
dpo_validation_file_path == "data/helpsteer2_preference_validation.jsonl"
sft_train_output_path == "data/helpsteer2_sft_training.jsonl"
sft_validation_output_path == "data/helpsteer2_sft_validation.jsonl"

Paths == {dpo_train_file_path, dpo_validation_file_path,
          sft_train_output_path, sft_validation_output_path}

\* A faulty variant of DpoPath: both splits go to one file.
DpoPathOneFile(s) == dpo_train_file_path

DpoPath(s) == IF s = "train" THEN dpo_train_file_path ELSE dpo_validation_file_path
SftPath(s) == IF s = "train" THEN sft_train_output_path ELSE sft_validation_output_path

\* A faulty variant of OpenW: the file is opened for appending.
OpenAppend(fs, path) == [p \in DOMAIN fs \cup {path} |->
                            IF p \in DOMAIN fs THEN fs[p] ELSE <<>>]

\* open(path, "w"): the file exists afterwards and is empty.
OpenW(fs, path) == [p \in DOMAIN fs \cup {path} |->
                          IF p = path THEN <<>> ELSE fs[p]]

\* f.write(text), all of it.
WriteAll(fs, path, text) == [fs EXCEPT ![path] = @ \o text]

\* f.write(text) that fails after n characters.
WriteSome(fs, path, text, n) == [fs EXCEPT ![path] = @ \o SubSeq(text, 1, n)]

\* What a failed write of text may leave behind: a proper prefix of it.
PartialLengths(text) ==
    0 .. (IF Len(text) - 1 < MaxPartial THEN Len(text) - 1 ELSE MaxPartial)

\* The complete lines of a file's content, each without its "\n"; what follows
\* the last "\n" is not a line.
Lines(content) ==
    LET newlines == {k \in 1 .. Len(content) : content[k] = NL}
        \* the position of the j-th "\n"; 0 for j = 0
        nth == [j \in 0 .. Cardinality(newlines) |->
                  IF j = 0 THEN 0
                  ELSE CHOOSE k \in newlines :
                          Cardinality({m \in newlines : m <= k}) = j]
    IN  [j \in 1 .. Cardinality(newlines) |-> SubSeq(content, nth[j - 1] + 1, nth[j] - 1)]

-----------------------------------------------------------------------------
(* The inputs *)

RECURSIVE SeqsOfLen(_, _)
SeqsOfLen(S, n) ==
    IF n = 0 THEN {<<>>}
    ELSE {Append(q, x) : q \in SeqsOfLen(S, n - 1), x \in S}

SeqsUpTo(S, n) == UNION {SeqsOfLen(S, k) : k \in 0 .. n}

\* Raw examples: the sample of the notebook's output, cut short (its chosen
\* response holds quotes and line breaks), one of empty strings, and three
\* that lack a field.
RawScenario == [prompt |-> <<"c", "#">>, chosen_response |-> <<"C", QUOTE, NL>>,
                rejected_response |-> <<"B", BACKSLASH>>]
RawEmpty == [prompt |-> <<>>, chosen_response |-> <<>>, rejected_response |-> <<>>]
RawNoPrompt == [chosen_response |-> <<"A">>, rejected_response |-> <<"B">>]
RawNoChosen == [prompt |-> <<"c", "#">>, rejected_response |-> <<"B">>]
RawNoRejected == [prompt |-> <<"c", "#">>, chosen_response |-> <<"A">>]

RawPool == {RawScenario, RawEmpty, RawNoPrompt, RawNoChosen, RawNoRejected}

\* dataset: the two splits, holding at most MaxExamples examples together.
Datasets ==
    {[train |-> t, validation |-> v] :
        <<t, v>> \in {tv \in SeqsUpTo(RawPool, MaxExamples) \X SeqsUpTo(RawPool, MaxExamples) :
                        Len(tv[1]) + Len(tv[2]) <= MaxExamples}}

\* Records handed to process_preference_to_sft directly: well-formed ones, and
\* dicts that lack a key or whose lists have another length.
UserMsg(text) == [role |-> User, content |-> text]
AssistantMsg(text) == [role |-> Assistant, content |-> text]

PrefScenario == PreferenceFormat(RawScenario).value
PrefTwoTurns == [input |-> [messages |-> <<UserMsg(<<"h", "i">>), AssistantMsg(<<>>),
                                           UserMsg(<<"c", "#">>)>>],
                 preferred_output |-> <<AssistantMsg(<<"A">>)>>,
                 non_preferred_output |-> <<AssistantMsg(<<"B">>)>>]
PrefNoInput == [preferred_output |-> <<AssistantMsg(<<"A">>)>>,
                non_preferred_output |-> <<AssistantMsg(<<"B">>)>>]
PrefNoMessages == [input |-> <<>>,
                   preferred_output |-> <<AssistantMsg(<<"A">>)>>,
                   non_preferred_output |-> <<AssistantMsg(<<"B">>)>>]
PrefNoPreferred == [input |-> [messages |-> <<UserMsg(<<"c", "#">>)>>],
                    non_preferred_output |-> <<AssistantMsg(<<"B">>)>>]
PrefEmptyPreferred == [input |-> [messages |-> <<UserMsg(<<"c", "#">>)>>],
                       preferred_output |-> <<>>,
                       non_preferred_output |-> <<AssistantMsg(<<"B">>)>>]
PrefTwoPreferred == [input |-> [messages |-> <<UserMsg(<<"c", "#">>)>>],
                     preferred_output |-> <<AssistantMsg(<<"A">>), AssistantMsg(<<"A", "2">>)>>,
                     non_preferred_output |-> <<AssistantMsg(<<"B">>)>>]
SftOfScenario == convert_preference_to_sft_format(PrefScenario).value

PrefPool == {PrefScenario, PrefTwoTurns, PrefNoInput, PrefNoMessages,
             PrefNoPreferred, PrefEmptyPreferred, PrefTwoPreferred, SftOfScenario}

\* What the other split of input_data holds while one split is processed.
OtherSplitData == {<<>>, <<PrefScenario>>}

InputData(sp) ==
    {[s \in {"train", "validation"} |-> IF s = sp THEN recs ELSE other] :
        recs \in SeqsUpTo(PrefPool, MaxRecords), other \in OtherSplitData}

\* The data directory before the run: the train files of an earlier run are
\* there, the validation files are not.
Stale == <<"{", "}", NL, "{">>
InitialFiles == [p \in {dpo_train_file_path, sft_train_output_path} |-> Stale]

-----------------------------------------------------------------------------
(* State *)

VARIABLES
    dataset,            \* the raw dataset: split -> list of examples
    converted,          \* convert_to_preference_dataset's local converted_dataset
    converted_dataset,  \* the notebook's converted_dataset (input_data of the SFT step)
    files,              \* the data directory: path -> content
    pc,                 \* where the run is
    split,              \* the split being converted, written or processed
    output_path,        \* process_preference_to_sft's output_path
    i,                  \* 1-based position of the loop's next element
    example,            \* the SFT loop's example
    sft_format,         \* the SFT loop's sft_format
    line_count,         \* process_preference_to_sft's line_count
    returned,           \* what process_preference_to_sft returned
    sft_count,          \* sft_train_count and sft_validation_count, by split
    stdout,             \* what was printed, in order
    exception,          \* the exception that ended the run, if any
    outcome,            \* how the SFT loop's latest iteration ended
    failed,             \* the iterations that raised, in order: position and exception
    failures,           \* writes that have failed so far
    names,              \* the names the upload and job cells have bound, with values
    service,            \* the fine-tuning service: ids given out, files, jobs
    previous            \* what the earlier call of process_preference_to_sft with the
                        \* same arguments returned and left in the file, if any

vars == <<dataset, converted, converted_dataset, files, pc, split, output_path, i,
          example, sft_format, line_count, returned, sft_count, stdout, exception,
          outcome, failed, failures, names, service,
          previous>>

Unbound == <<>>
NoException == [type |-> "none"]
ProgressInterval == 2000

EmptyConverted == [train |-> <<>>, validation |-> <<>>]

\* No name of the upload and job cells is bound; the service has given out no
\* id and holds no file and no job of this run.
NoNames == <<>>
NewService == [next |-> 1, files |-> <<>>, jobs |-> <<>>]

\* A split long enough for the progress print: LongRecords records, each the
\* shortest dict that converts, but for those at the positions bad, which lack
\* input.
PrefBare == [input |-> [messages |-> <<>>], preferred_output |-> <<>>,
             non_preferred_output |-> <<>>]
LongRecords == ProgressInterval + MaxRecords
LongSplit(bad) == [k \in 1 .. LongRecords |-> IF k \in bad THEN PrefNoInput ELSE PrefBare]
LongInputData(sp) ==
    {[s \in {"train", "validation"} |-> IF s = sp THEN LongSplit(bad) ELSE <<>>] :
        bad \in {{}, {1}, {ProgressInterval}}}

\* The run starts in convert_to_preference_dataset(dataset), which has just
\* built its empty converted_dataset.
Init ==
    /\ dataset \in Datasets
    /\ converted = EmptyConverted
    /\ converted_dataset = Unbound
    /\ files = InitialFiles
    /\ pc = "convert"
    /\ split = "train"
    /\ output_path = ""
    /\ i = 1
    /\ example = Unbound
    /\ sft_format = Unbound
    /\ line_count = 0
    /\ returned = Unbound
    /\ sft_count = <<>>
    /\ stdout = <<>>
    /\ exception = NoException
    /\ outcome = "none"
    /\ failed = <<>>
    /\ failures = 0
    /\ names = NoNames
    /\ service = NewService
    /\ previous = Unbound

\* process_preference_to_sft(input_data, SftPath(sp), sp) is called on its own.
InitSft ==
    /\ dataset = EmptyConverted
    /\ converted = EmptyConverted
    /\ split \in {"train", "validation"}
    /\ converted_dataset \in InputData(split)
    /\ files = InitialFiles
    /\ pc = "sft_open"
    /\ output_path = SftPath(split)
    /\ i = 1
    /\ example = Unbound
    /\ sft_format = Unbound
    /\ line_count = 0
    /\ returned = Unbound
    /\ sft_count = <<>>
    /\ stdout = <<>>
    /\ exception = NoException
    /\ outcome = "none"
    /\ failed = <<>>
    /\ failures = 0
    /\ names = NoNames
    /\ service = NewService
    /\ previous = Unbound

-----------------------------------------------------------------------------
(* convert_to_preference_dataset(dataset) *)

\* A faulty variant of ConvertExample: the record is put at the front of the
\* split's list.
ConvertExamplePrepend ==
    /\ pc = "convert"
    /\ i <= Len(dataset[split])
    /\ LET r == PreferenceFormat(dataset[split][i]) IN
        /\ r.ok
        /\ converted' = [converted EXCEPT ![split] = <<r.value>> \o @]
    /\ i' = i + 1
    /\ dataset' = [dataset EXCEPT ![split][i] = RawAfterFormat(@)]
    /\ UNCHANGED <<converted_dataset, files, pc, split, output_path, example,
                   sft_format, line_count, returned, sft_count, stdout, exception,
                   outcome, failed, failures>>
    /\ UNCHANGED <<names, service, previous>>

\* One iteration of the inner loop: the example's record is appended to the
\* split's list.
ConvertExample ==
    /\ pc = "convert"
    /\ i <= Len(dataset[split])
    /\ LET r == PreferenceFormat(dataset[split][i]) IN
        /\ r.ok
        /\ converted' = [converted EXCEPT ![split] = Append(@, r.value)]
    /\ i' = i + 1
    /\ dataset' = [dataset EXCEPT ![split][i] = RawAfterFormat(@)]
    /\ UNCHANGED <<converted_dataset, files, pc, split, output_path, example,
                   sft_format, line_count, returned, sft_count, stdout, exception,
                   outcome, failed, failures>>
    /\ UNCHANGED <<names, service, previous>>

\* A faulty variant of ConvertRaise: the example that lacks a field is passed
\* over and the loop goes on.
ConvertSkipsExample ==
    /\ pc = "convert"
    /\ i <= Len(dataset[split])
    /\ ~PreferenceFormat(dataset[split][i]).ok
    /\ i' = i + 1
    /\ dataset' = [dataset EXCEPT ![split][i] = RawAfterFormat(@)]
    /\ UNCHANGED <<converted, converted_dataset, files, pc, split, output_path,
                   example, sft_format, line_count, returned, sft_count, stdout,
                   exception, outcome, failed, failures>>
    /\ UNCHANGED <<names, service, previous>>

\* One iteration whose example lacks a field: the KeyError leaves the function
\* and ends the run; converted_dataset is never assigned.
ConvertRaise ==
    /\ pc = "convert"
    /\ i <= Len(dataset[split])
    /\ LET r == PreferenceFormat(dataset[split][i]) IN
        /\ ~r.ok
        /\ exception' = r.exc
    /\ pc' = "aborted"
    /\ dataset' = [dataset EXCEPT ![split][i] = RawAfterFormat(@)]
    /\ UNCHANGED <<converted, converted_dataset, files, split, output_path, i,
                   example, sft_format, line_count, returned, sft_count, stdout,
                   outcome, failed, failures>>
    /\ UNCHANGED <<names, service, previous>>

\* The train split is exhausted: on to the validation split.
ConvertNextSplit ==
    /\ pc = "convert"
    /\ i > Len(dataset[split])
    /\ split = "train"
    /\ split' = "validation"
    /\ i' = 1
    /\ UNCHANGED <<dataset, converted, converted_dataset, files, pc, output_path,
                   example, sft_format, line_count, returned, sft_count, stdout,
                   exception, outcome, failed, failures>>
    /\ UNCHANGED <<names, service, previous>>

\* return converted_dataset, assigned to the notebook's converted_dataset;
\* os.makedirs("data", exist_ok=True) follows.
ConvertReturn ==
    /\ pc = "convert"
    /\ i > Len(dataset[split])
    /\ split = "validation"
    /\ converted_dataset' = converted
    /\ pc' = "pref_open"
    /\ split' = "train"
    /\ i' = 1
    /\ UNCHANGED <<dataset, converted, files, output_path, example, sft_format,
                   line_count, returned, sft_count, stdout, exception, outcome,
                   failed, failures>>
    /\ UNCHANGED <<names, service, previous>>

-----------------------------------------------------------------------------
(* The preference JSONL write loops *)

\* with open(path, "w") as f
PrefOpen ==
    /\ pc = "pref_open"
    /\ files' = OpenW(files, DpoPath(split))
    /\ i' = 1
    /\ pc' = "pref_write"
    /\ UNCHANGED <<dataset, converted, converted_dataset, split, output_path, example,
                   sft_format, line_count, returned, sft_count, stdout, exception,
                   outcome, failed, failures>>
    /\ UNCHANGED <<names, service, previous>>

\* The text one iteration writes.
PrefLine(r) == DumpsPreference(r) \o <<NL>>

\* f.write(json.dumps(example) + "\n")
PrefWrite ==
    /\ pc = "pref_write"
    /\ i <= Len(converted_dataset[split])
    /\ files' = WriteAll(files, DpoPath(split), PrefLine(converted_dataset[split][i]))
    /\ i' = i + 1
    /\ UNCHANGED <<dataset, converted, converted_dataset, pc, split, output_path,
                   example, sft_format, line_count, returned, sft_count, stdout,
                   exception, outcome, failed, failures>>
    /\ UNCHANGED <<names, service, previous>>

\* The write fails: nothing catches the OSError and the run ends.
PrefWriteFail ==
    /\ pc = "pref_write"
    /\ i <= Len(converted_dataset[split])
    /\ failures < MaxWriteFailures
    /\ \E n \in PartialLengths(PrefLine(converted_dataset[split][i])) :
          files' = WriteSome(files, DpoPath(split),
                             PrefLine(converted_dataset[split][i]), n)
    /\ failures' = failures + 1
    /\ exception' = OSError
    /\ pc' = "aborted"
    /\ UNCHANGED <<dataset, converted, converted_dataset, split, output_path, i,
                   example, sft_format, line_count, returned, sft_count, stdout,
                   outcome, failed>>
    /\ UNCHANGED <<names, service, previous>>

\* The loop is over and the file is closed: on to the validation file, or to
\* the cell's prints.
PrefClose ==
    /\ pc = "pref_write"
    /\ i > Len(converted_dataset[split])
    /\ IF split = "train"
       THEN split' = "validation" /\ pc' = "pref_open"
       ELSE split' = split /\ pc' = "sample"
    /\ UNCHANGED <<dataset, converted, converted_dataset, files, output_path, i,
                   example, sft_format, line_count, returned, sft_count, stdout,
                   exception, outcome, failed, failures>>
    /\ UNCHANGED <<names, service, previous>>

Saved(n) == [text |-> "Saved training examples", n |-> n]
Contains(n) == [text |-> "Validation set contains", n |-> n]

\* The prints that end the cell; converted_dataset["train"][0] is the sample.
PrintSample ==
    /\ pc = "sample"
    /\ Len(converted_dataset["train"]) > 0
    /\ stdout' = stdout \o <<Saved(Len(converted_dataset["train"])),
                             Contains(Len(converted_dataset["validation"])),
                             [text |-> "Sample example",
                              example |-> converted_dataset["train"][1]]>>
    /\ pc' = "sft_open"
    /\ split' = "train"
    /\ output_path' = sft_train_output_path
    /\ UNCHANGED <<dataset, converted, converted_dataset, files, i, example,
                   sft_format, line_count, returned, sft_count, exception, outcome,
                   failed, failures>>
    /\ UNCHANGED <<names, service, previous>>

\* With an empty train split the sample's subscript raises IndexError.
PrintSampleRaise ==
    /\ pc = "sample"
    /\ Len(converted_dataset["train"]) = 0
    /\ stdout' = stdout \o <<Saved(0), Contains(Len(converted_dataset["validation"]))>>
    /\ exception' = [type |-> "IndexError"]
    /\ pc' = "aborted"
    /\ UNCHANGED <<dataset, converted, converted_dataset, files, split, output_path, i,
                   example, sft_format, line_count, returned, sft_count, outcome,
                   failed, failures>>
    /\ UNCHANGED <<names, service, previous>>

-----------------------------------------------------------------------------
(* process_preference_to_sft(input_data, output_path, split), with          *)
(* converted_dataset as its input_data                                      *)

ErrorProcessing(n, e) == [text |-> "Error processing example", n |-> n, e |-> e]
Progress(n) == [text |-> "Processed examples", n |-> n]
Summary(n, s, path) == [text |-> "Processed examples for", n |-> n, split |-> s,
                        path |-> path]

\* os.makedirs; line_count = 0; with open(output_path, 'w') as outfile
SftOpen ==
    /\ pc = "sft_open"
    /\ line_count' = 0
    /\ files' = OpenW(files, output_path)
    /\ i' = 1
    /\ outcome' = "none"
    /\ failed' = <<>>
    /\ pc' = "sft_loop"
    /\ UNCHANGED <<dataset, converted, converted_dataset, split, output_path, example,
                   sft_format, returned, sft_count, stdout, exception, failures>>
    /\ UNCHANGED <<names, service, previous>>

\* A faulty variant of SftLine: the line is not ended.
SftLineUnended(r) == DumpsSft(r)

\* The text one iteration writes.
SftLine(r) == DumpsSft(r) \o <<NL>>

\* A faulty variant of ProgressPrint: the split is not looked at.
ProgressPrintAnySplit(n, s) ==
    IF n % ProgressInterval = 0 THEN <<Progress(n)>> ELSE <<>>

\* What print follows the increment of line_count.
ProgressPrint(n, s) ==
    IF n % ProgressInterval = 0 /\ s = "train" THEN <<Progress(n)>> ELSE <<>>

\* The position the except clause prints.
ReportedPosition(n) == n + 1

\* An iteration whose conversion and write succeed.
SftWrite ==
    /\ pc = "sft_loop"
    /\ i <= Len(converted_dataset[split])
    /\ example' = converted_dataset[split][i]
    /\ LET r == convert_preference_to_sft_format(example') IN
        /\ r.ok
        /\ sft_format' = r.value
        /\ files' = WriteAll(files, output_path, SftLine(r.value))
    /\ line_count' = line_count + 1
    /\ stdout' = stdout \o ProgressPrint(line_count', split)
    /\ outcome' = "written"
    /\ i' = i + 1
    /\ converted_dataset' =
          [converted_dataset EXCEPT ![split][i] = DataAfterConvert(@)]
    /\ UNCHANGED <<dataset, converted, pc, split, output_path,
                   returned, sft_count, exception, failed, failures>>
    /\ UNCHANGED <<names, service, previous>>

\* A faulty variant of SftConvertFail: nothing catches the exception.
SftConvertFailEscapes ==
    /\ pc = "sft_loop"
    /\ i <= Len(converted_dataset[split])
    /\ example' = converted_dataset[split][i]
    /\ LET r == convert_preference_to_sft_format(example') IN
        /\ ~r.ok
        /\ exception' = r.exc
        /\ failed' = Append(failed, [position |-> i, exc |-> r.exc])
    /\ outcome' = "convert_error"
    /\ pc' = "aborted"
    /\ converted_dataset' =
          [converted_dataset EXCEPT ![split][i] = DataAfterConvert(@)]
    /\ UNCHANGED <<dataset, converted, files, split, output_path, i,
                   sft_format, line_count, returned, sft_count, stdout, failures>>
    /\ UNCHANGED <<names, service, previous>>

\* A faulty variant of SftConvertFail: the failed record is counted as well.
SftConvertFailCounted ==
    /\ pc = "sft_loop"
    /\ i <= Len(converted_dataset[split])
    /\ example' = converted_dataset[split][i]
    /\ LET r == convert_preference_to_sft_format(example') IN
        /\ ~r.ok
        /\ stdout' = Append(stdout, ErrorProcessing(ReportedPosition(line_count), r.exc))
        /\ failed' = Append(failed, [position |-> i, exc |-> r.exc])
    /\ line_count' = line_count + 1
    /\ outcome' = "convert_error"
    /\ i' = i + 1
    /\ converted_dataset' =
          [converted_dataset EXCEPT ![split][i] = DataAfterConvert(@)]
    /\ UNCHANGED <<dataset, converted, files, pc, split,
                   output_path, sft_format, returned, sft_count, exception, failures>>
    /\ UNCHANGED <<names, service, previous>>

\* An iteration whose conversion raises: the except clause prints, and the
\* loop goes on.
SftConvertFail ==
    /\ pc = "sft_loop"
    /\ i <= Len(converted_dataset[split])
    /\ example' = converted_dataset[split][i]
    /\ LET r == convert_preference_to_sft_format(example') IN
        /\ ~r.ok
        /\ stdout' = Append(stdout, ErrorProcessing(ReportedPosition(line_count), r.exc))
        /\ failed' = Append(failed, [position |-> i, exc |-> r.exc])
    /\ outcome' = "convert_error"
    /\ i' = i + 1
    /\ converted_dataset' =
          [converted_dataset EXCEPT ![split][i] = DataAfterConvert(@)]
    /\ UNCHANGED <<dataset, converted, files, pc, split,
                   output_path, sft_format, line_count, returned, sft_count,
                   exception, failures>>
    /\ UNCHANGED <<names, service, previous>>

\* An iteration whose conversion succeeds and whose write fails: the OSError
\* is an Exception, so the same except clause prints, and the loop goes on.
SftWriteFail ==
    /\ pc = "sft_loop"
    /\ i <= Len(converted_dataset[split])
    /\ failures < MaxWriteFailures
    /\ example' = converted_dataset[split][i]
    /\ LET r == convert_preference_to_sft_format(example') IN
        /\ r.ok
        /\ sft_format' = r.value
        /\ \E n \in PartialLengths(SftLine(r.value)) :
              files' = WriteSome(files, output_path, SftLine(r.value), n)
    /\ failures' = failures + 1
    /\ stdout' = Append(stdout, ErrorProcessing(ReportedPosition(line_count), OSError))
    /\ outcome' = "write_error"
    /\ failed' = Append(failed, [position |-> i, exc |-> OSError])
    /\ i' = i + 1
    /\ converted_dataset' =
          [converted_dataset EXCEPT ![split][i] = DataAfterConvert(@)]
    /\ UNCHANGED <<dataset, converted, pc, split, output_path,
                   line_count, returned, sft_count, exception>>
    /\ UNCHANGED <<names, service, previous>>

\* The loop is over: the file is closed, the summary printed, line_count
\* returned.
SftReturn ==
    /\ pc = "sft_loop"
    /\ i > Len(converted_dataset[split])
    /\ stdout' = Append(stdout, Summary(line_count, split, output_path))
    /\ returned' = line_count
    /\ pc' = "sft_returned"
    /\ UNCHANGED <<dataset, converted, converted_dataset, files, split, output_path, i,
                   example, sft_format, line_count, sft_count, exception, outcome,
                   failed, failures>>
    /\ UNCHANGED <<names, service, previous>>

\* The call is made again, with the same input_data, output_path and split
\* (the cell is run again); what the earlier call returned and left in the
\* file is kept for comparison.
SftRerun ==
    /\ pc = "sft_returned"
    /\ previous = Unbound
    /\ previous' = [returned |-> returned, content |-> files[output_path],
                    failed |-> failed]
    /\ returned' = Unbound
    /\ pc' = "sft_open"
    /\ UNCHANGED <<dataset, converted, converted_dataset, files, split, output_path, i,
                   example, sft_format, line_count, sft_count, stdout, exception,
                   outcome, failed, failures, names, service>>

\* sft_train_count = process_preference_to_sft(..., "train"); the call for
\* the validation split follows.
SftTrainCounted ==
    /\ pc = "sft_returned"
    /\ split = "train"
    /\ sft_count' = ("train" :> returned) @@ sft_count
    /\ split' = "validation"
    /\ output_path' = sft_validation_output_path
    /\ returned' = Unbound
    /\ pc' = "sft_open"
    /\ UNCHANGED <<dataset, converted, converted_dataset, files, i, example,
                   sft_format, line_count, stdout, exception, outcome, failed,
                   failures>>
    /\ UNCHANGED <<names, service, previous>>

\* sft_validation_count = process_preference_to_sft(..., "validation")
SftValidationCounted ==
    /\ pc = "sft_returned"
    /\ split = "validation"
    /\ sft_count' = ("validation" :> returned) @@ sft_count
    /\ pc' = "done"
    /\ UNCHANGED <<dataset, converted, converted_dataset, files, split, output_path, i,
                   example, sft_format, line_count, returned, stdout, exception,
                   outcome, failed, failures>>
    /\ UNCHANGED <<names, service, previous>>

-----------------------------------------------------------------------------
(* The upload and job cells.  A cell is run when the kernel is idle, in any  *)
(* order and any number of times; a cell that raises binds nothing from the  *)
(* failing statement on, and the kernel stays idle.                          *)

NameError(n) == [type |-> "NameError", name |-> n]
RemoteError == [type |-> "RemoteError"]
FileNotFoundError == [type |-> "FileNotFoundError"]

\* The first of the names, in the order the cell reads them, that is not
\* bound; "" when all are.
RECURSIVE FirstUnbound(_, _)
FirstUnbound(nm, needed) ==
    IF needed = <<>> THEN ""
    ELSE IF Head(needed) \notin DOMAIN nm THEN Head(needed)
    ELSE FirstUnbound(nm, Tail(needed))

\* name = value
Bind(nm, n, v) == (n :> v) @@ nm

\* What client.files.upload(path, check=True) returns when the service
\* accepts the file, and the service afterwards.
UploadedFile(sv, fs, path) == [id |-> sv.next, filename |-> path, content |-> fs[path]]
AfterUpload(sv, fs, path) ==
    [sv EXCEPT !.next = @ + 1, !.files = Append(@, UploadedFile(sv, fs, path))]

\* What client.fine_tuning.create(...) returns when the service accepts the
\* request, and the service afterwards.
CreatedJob(sv, request) == [id |-> sv.next] @@ request
AfterCreate(sv, request) ==
    [sv EXCEPT !.next = @ + 1, !.jobs = Append(@, CreatedJob(sv, request))]

\* A cell of two uploads and two prints: n1 = upload(p1); n2 = upload(p2).
UploadFiles(n1, p1, n2, p2, title) ==
    /\ pc = "cells"
    /\ \/ \* the first upload raises
          /\ exception' = IF p1 \in DOMAIN files THEN RemoteError
                                                 ELSE FileNotFoundError
          /\ UNCHANGED <<names, service, stdout>>
       \/ \* the second upload raises
          /\ p1 \in DOMAIN files
          /\ service.next <= MaxServiceIds
          /\ names' = Bind(names, n1, UploadedFile(service, files, p1))
          /\ service' = AfterUpload(service, files, p1)
          /\ exception' = IF p2 \in DOMAIN files THEN RemoteError
                                                 ELSE FileNotFoundError
          /\ UNCHANGED stdout
       \/ \* both are accepted
          /\ p1 \in DOMAIN files
          /\ p2 \in DOMAIN files
          /\ service.next + 1 <= MaxServiceIds
          /\ LET f1 == UploadedFile(service, files, p1)
                 sv1 == AfterUpload(service, files, p1)
                 f2 == UploadedFile(sv1, files, p2)
             IN  /\ names' = Bind(Bind(names, n1, f1), n2, f2)
                 /\ service' = AfterUpload(sv1, files, p2)
                 /\ stdout' = stdout \o <<[text |-> title, split |-> "train", id |-> f1.id],
                                          [text |-> title, split |-> "validation",
                                           id |-> f2.id]>>
          /\ exception' = NoException
    /\ UNCHANGED <<dataset, converted, converted_dataset, files, pc, split, output_path,
                   i, example, sft_format, line_count, returned, sft_count, outcome,
                   failed, failures, previous>>

\* dpo_train_file = ...; dpo_validation_file = ...
UploadDpoFiles ==
    UploadFiles("dpo_train_file", dpo_train_file_path,
                "dpo_validation_file", dpo_validation_file_path, "Uploaded DPO files")

\* sft_train_file = ...; sft_validation_file = ...
UploadSftFiles ==
    UploadFiles("sft_train_file", sft_train_output_path,
                "sft_validation_file", sft_validation_output_path, "Uploaded SFT files")

\* A cell of one job creation and the print of the job's id:
\* n = client.fine_tuning.create(...); needed are the names the arguments
\* read, in order.
CreateJob(n, needed, request) ==
    /\ pc = "cells"
    /\ \/ \* an argument names something unbound
          /\ FirstUnbound(names, needed) # ""
          /\ exception' = NameError(FirstUnbound(names, needed))
          /\ UNCHANGED <<names, service, stdout>>
       \/ \* the service rejects the request
          /\ FirstUnbound(names, needed) = ""
          /\ exception' = RemoteError
          /\ UNCHANGED <<names, service, stdout>>
       \/ \* the job is created
          /\ FirstUnbound(names, needed) = ""
          /\ service.next <= MaxServiceIds
          /\ names' = Bind(names, n, CreatedJob(service, request))
          /\ service' = AfterCreate(service, request)
          /\ stdout' = Append(stdout, [text |-> "job id", id |-> service.next])
          /\ exception' = NoException
    /\ UNCHANGED <<dataset, converted, converted_dataset, files, pc, split, output_path,
                   i, example, sft_format, line_count, returned, sft_count, outcome,
                   failed, failures, previous>>

NoCheckpoint == [none |-> TRUE]

\* The arguments of the direct DPO job.
DpoRequest(nm) ==
    [training_method |-> "dpo",
     training_file |-> nm["dpo_train_file"].id,
     validation_file |-> nm["dpo_validation_file"].id,
     suffix |-> "helpsteer2_dpo_training",
     from_checkpoint |-> NoCheckpoint]

\* The arguments of the SFT job; the training method is the default one.
SftRequest(nm) ==
    [training_method |-> "sft",
     training_file |-> nm["sft_train_file"].id,
     validation_file |-> nm["sft_validation_file"].id,
     suffix |-> "helpsteer2_sft_training",
     from_checkpoint |-> NoCheckpoint]

\* A faulty variant of DpoFromSftRequest: the job continues from whatever
\* the service created last.
DpoFromSftRequestLatestJob(nm) ==
    [training_method |-> "dpo",
     training_file |-> nm["dpo_train_file"].id,
     validation_file |-> nm["dpo_validation_file"].id,
     suffix |-> "helpsteer2_dpo_training_continuing_sft",
     from_checkpoint |-> service.next - 1]

\* The arguments of the DPO job that continues the SFT job.
DpoFromSftRequest(nm) ==
    [training_file |-> nm["dpo_train_file"].id,
     validation_file |-> nm["dpo_validation_file"].id,
     suffix |-> "helpsteer2_dpo_training_continuing_sft",
     training_method |-> "dpo",
     from_checkpoint |-> nm["sft_training"].id]

\* dpo_training = client.fine_tuning.create(...); print(dpo_training.id)
CreateDpoTraining ==
    CreateJob("dpo_training", <<"dpo_train_file", "dpo_validation_file">>,
              DpoRequest(names))

\* sft_training = client.fine_tuning.create(...); print(sft_training.id)
CreateSftTraining ==
    CreateJob("sft_training", <<"sft_train_file", "sft_validation_file">>,
              SftRequest(names))

\* dpo_training_from_sft = client.fine_tuning.create(...);
\* print(dpo_training_from_sft.id)
CreateDpoFromSft ==
    CreateJob("dpo_training_from_sft",
              <<"dpo_train_file", "dpo_validation_file", "sft_training">>,
              DpoFromSftRequest(names))

-----------------------------------------------------------------------------
(* Specifications *)

\* The notebook's data preparation, from the raw dataset to the four files.
\* Every record of its converted_dataset was built by
\* convert_to_preference_dataset and holds all three keys, so SftConvertFail is
\* never enabled in it (PipelineRecordsConvert).
Next ==
    \/ ConvertExample
    \/ ConvertRaise
    \/ ConvertNextSplit
    \/ ConvertReturn
    \/ PrefOpen
    \/ PrefWrite
    \/ PrefWriteFail
    \/ PrefClose
    \/ PrintSample
    \/ PrintSampleRaise
    \/ SftOpen
    \/ SftWrite
    \/ SftWriteFail
    \/ SftReturn
    \/ SftTrainCounted
    \/ SftValidationCounted

Spec == Init /\ [][Next]_vars

PipelineRecordsConvert == ~ENABLED SftConvertFail

\* One call of process_preference_to_sft on any input_data.
NextSft ==
    \/ SftOpen
    \/ SftWrite
    \/ SftConvertFail
    \/ SftWriteFail
    \/ SftReturn

SpecSft == InitSft /\ [][NextSft]_vars

\* One call of process_preference_to_sft on a long split; the file system
\* lets a write fail only where the count is about to reach ProgressInterval.
InitProgress ==
    /\ dataset = EmptyConverted
    /\ converted = EmptyConverted
    /\ split \in {"train", "validation"}
    /\ converted_dataset \in LongInputData(split)
    /\ files = InitialFiles
    /\ pc = "sft_open"
    /\ output_path = SftPath(split)
    /\ i = 1
    /\ example = Unbound
    /\ sft_format = Unbound
    /\ line_count = 0
    /\ returned = Unbound
    /\ sft_count = <<>>
    /\ stdout = <<>>
    /\ exception = NoException
    /\ outcome = "none"
    /\ failed = <<>>
    /\ failures = 0
    /\ names = NoNames
    /\ service = NewService
    /\ previous = Unbound

NextProgress ==
    \/ SftOpen
    \/ SftWrite
    \/ SftConvertFail
    \/ (line_count + 1 = ProgressInterval /\ SftWriteFail)
    \/ SftReturn

SpecProgress == InitProgress /\ [][NextProgress]_vars

\* The upload and job cells, run after the data preparation: the preference
\* files are in the data directory, the SFT files are there when the optional
\* SFT preparation was run.
PreparedFiles ==
    [p \in Paths |-> IF p \in {dpo_train_file_path, dpo_validation_file_path}
                     THEN PrefLine(PrefScenario)
                     ELSE SftLine(SftOfScenario)]
PreferenceFilesOnly ==
    [p \in {dpo_train_file_path, dpo_validation_file_path} |-> PrefLine(PrefScenario)]

InitJobs ==
    /\ dataset = [train |-> <<RawScenario>>, validation |-> <<RawScenario>>]
    /\ converted = [train |-> <<PrefScenario>>, validation |-> <<PrefScenario>>]
    /\ converted_dataset = converted
    /\ files \in {PreparedFiles, PreferenceFilesOnly}
    /\ pc = "cells"
    /\ split = "validation"
    /\ output_path = ""
    /\ i = 1
    /\ example = Unbound
    /\ sft_format = Unbound
    /\ line_count = 0
    /\ returned = Unbound
    /\ sft_count = <<>>
    /\ stdout = <<>>
    /\ exception = NoException
    /\ outcome = "none"
    /\ failed = <<>>
    /\ failures = 0
    /\ names = NoNames
    /\ service = NewService
    /\ previous = Unbound

NextJobs ==
    \/ UploadDpoFiles
    \/ CreateDpoTraining
    \/ UploadSftFiles
    \/ CreateSftTraining
    \/ CreateDpoFromSft

SpecJobs == InitJobs /\ [][NextJobs]_vars

\* Two calls of process_preference_to_sft with the same arguments, one after
\* the other.
NextRerun ==
    \/ SftOpen
    \/ SftWrite
    \/ SftConvertFail
    \/ SftWriteFail
    \/ SftReturn
    \/ SftRerun

SpecRerun == InitSft /\ [][NextRerun]_vars

-----------------------------------------------------------------------------
(* Helpers of the properties *)

BothSplits == {"train", "validation"}
RawKeys == {"prompt", "chosen_response", "rejected_response"}

EndsWith(content, text) ==
    /\ Len(content) >= Len(text)
    /\ SubSeq(content, Len(content) - Len(text) + 1, Len(content)) = text

\* A PreferenceRecord of the data model: the three keys, and one message in
\* each output.
IsPreferenceRecord(p) ==
    /\ DOMAIN p = {"input", "preferred_output", "non_preferred_output"}
    /\ HasKey(p["input"], "messages")
    /\ Len(p["preferred_output"]) = 1
    /\ Len(p["non_preferred_output"]) = 1

\* A dict that lacks a key convert_preference_to_sft_format subscripts.
LacksRequired(p) ==
    \/ ~HasKey(p, "input")
    \/ ~HasKey(p["input"], "messages")
    \/ ~HasKey(p, "preferred_output")

\* The SFT loop has processed example in its latest iteration, and converted it.
Converted == outcome \in {"written", "write_error"}

\* The error prints of the except clause, in order.
IsErrorPrint(m) == m.text = "Error processing example"
ErrorPrints == SelectSeq(stdout, IsErrorPrint)

\* Values that take the place of an example's non_preferred_output.
NonPreferredOutputs ==
    {<<>>, <<AssistantMsg(<<"B">>)>>, <<AssistantMsg(<<"Z">>)>>,
     <<AssistantMsg(<<"B">>), AssistantMsg(<<"Z">>)>>}

\* The output file of a format and a split, as the notebook names them.
OutputFile(format, s) ==
    IF format = "preference"
    THEN (IF s = "train" THEN dpo_train_file_path ELSE dpo_validation_file_path)
    ELSE (IF s = "train" THEN sft_train_output_path ELSE sft_validation_output_path)

\* The preference record and the SFT record of the k-th raw example of split s.
PreferenceOf(s, k) == PreferenceFormat(dataset[s][k]).value
SupervisedOf(s, k) == convert_preference_to_sft_format(PreferenceOf(s, k)).value

\* The records of the split being processed that
\* convert_preference_to_sft_format converts, in the split's order.
ConvertsOk(r) == convert_preference_to_sft_format(r).ok
Convertible == SelectSeq(converted_dataset[split], ConvertsOk)

\* The progress prints, in order.
IsProgressPrint(m) == m.text = "Processed examples"
ProgressPrints == SelectSeq(stdout, IsProgressPrint)

\* The preference file of split s has been opened by this run.
PrefOpened(s) ==
    \/ pc = "pref_write" /\ (s = "train" \/ split = "validation")
    \/ pc \in {"sample", "sft_open", "sft_loop", "sft_returned", "done"}
    \/ pc = "aborted" /\ exception = OSError /\ (s = "train" \/ split = "validation")
    \/ pc = "aborted" /\ exception.type = "IndexError"

-----------------------------------------------------------------------------
(* Properties *)

\* C1: every record convert_to_preference_dataset has built holds exactly the
\* user message of its raw example's prompt, the assistant message of its
\* chosen_response and the assistant message of its rejected_response, empty
\* strings included; and a KeyError is raised only at an example that lacks a
\* field.
C1_PreferenceRecordOfExample ==
    /\ \A s \in BothSplits : \A k \in 1 .. Len(converted[s]) :
          LET r == dataset[s][k]
              p == converted[s][k]
          IN  /\ DOMAIN p = {"input", "preferred_output", "non_preferred_output"}
              /\ DOMAIN p["input"] = {"messages"}
              /\ p["input"]["messages"] = << [role |-> User, content |-> r["prompt"]] >>
              /\ p["preferred_output"] =
                    << [role |-> Assistant, content |-> r["chosen_response"]] >>
              /\ p["non_preferred_output"] =
                    << [role |-> Assistant, content |-> r["rejected_response"]] >>
    /\ exception.type = "KeyError" => DOMAIN dataset[split][i] # RawKeys
    /\ (pc = "convert" /\ i <= Len(dataset[split]) /\ DOMAIN dataset[split][i] = RawKeys)
          => ENABLED ConvertExample

C1_Witness ==
    /\ pc = "pref_open"
    /\ exception = NoException
    /\ Len(converted_dataset["train"]) = 2
    /\ dataset["train"][2] = RawEmpty
    /\ converted_dataset["train"][2]["preferred_output"][1]["content"] = <<>>

\* C2: the messages of a converted record are the example's input.messages
\* followed by its preferred_output, in this order; for a PreferenceRecord that
\* is one message more than input.messages holds.
C2_MessagesAreInputThenPreferred ==
    Converted =>
        /\ sft_format["messages"] =
              example["input"]["messages"] \o example["preferred_output"]
        /\ DOMAIN sft_format = {"messages"}
        /\ IsPreferenceRecord(example) =>
              Len(sft_format["messages"]) = Len(example["input"]["messages"]) + 1

C2_Witness ==
    /\ outcome = "written"
    /\ example = PrefTwoTurns
    /\ Len(sft_format["messages"]) = 4
    /\ sft_format["messages"][4] = AssistantMsg(<<"A">>)
    /\ sft_format["messages"][3] = UserMsg(<<"c", "#">>)

\* C3: the outcome of an iteration is the same for every record that differs
\* from the example only in non_preferred_output: the same SFT record, the same
\* text written, or the same exception.
C3_RejectedSideIgnored ==
    (outcome # "none" /\ HasKey(example, "non_preferred_output")) =>
        \A npo \in NonPreferredOutputs :
            LET q == [example EXCEPT !["non_preferred_output"] = npo]
                r == convert_preference_to_sft_format(q)
            IN  /\ r.ok = Converted
                /\ r.ok => r.value = sft_format
                /\ outcome = "written" => EndsWith(files[output_path], SftLine(r.value))
                /\ outcome = "convert_error" => r.exc = failed[Len(failed)].exc

C3_Witness ==
    /\ outcome = "written"
    /\ example = PrefScenario
    /\ example["non_preferred_output"] \notin NonPreferredOutputs
    /\ EndsWith(files[output_path], SftLine(SftOfScenario))

\* C4: convert_to_preference_dataset returns as many records as the split has
\* raw examples, and a call of process_preference_to_sft in which no iteration
\* raised leaves that many lines in the split's file and returns that number.
C4_OneRecordPerExample ==
    /\ converted_dataset # Unbound =>
          \A s \in BothSplits : Len(converted_dataset[s]) = Len(dataset[s])
    /\ (pc = "sft_returned" /\ failed = <<>>) =>
          /\ output_path = SftPath(split)
          /\ Len(Lines(files[output_path])) = Len(dataset[split])
          /\ returned = Len(dataset[split])

C4_Witness ==
    /\ pc = "sft_returned"
    /\ split = "validation"
    /\ failed = <<>>
    /\ Len(dataset["validation"]) = 2
    /\ returned = 2
    /\ Len(Lines(files[sft_validation_output_path])) = 2

\* C5: the k-th record of a split is the one built from the split's k-th raw
\* example, and the k-th line of the split's preference file is that record's
\* JSON text.
C5_SourceOrderPreserved ==
    \A s \in BothSplits :
        /\ \A k \in 1 .. Len(converted[s]) :
              PreferenceFormat(dataset[s][k]) = Return(converted[s][k])
        /\ PrefOpened(s) =>
              Lines(files[DpoPath(s)]) \in
                  {[k \in 1 .. n |->
                       DumpsPreference(PreferenceFormat(dataset[s][k]).value)] :
                     n \in IF pc \in {"sample", "sft_open", "sft_loop",
                                      "sft_returned", "done"}
                           THEN {Len(dataset[s])}
                           ELSE 0 .. Len(dataset[s])}

C5_Witness ==
    /\ pc = "sample"
    /\ Len(dataset["train"]) = 2
    /\ dataset["train"][1] # dataset["train"][2]
    /\ Len(dataset["validation"]) = 1
    /\ Len(Lines(files[dpo_train_file_path])) = 2
    /\ Lines(files[dpo_validation_file_path]) =
          <<DumpsPreference(converted_dataset["validation"][1])>>

\* C6: no exception leaves process_preference_to_sft when conversions fail:
\* after a failed conversion the loop stands at the next record, every record
\* up to the loop's position was either written or reported, the loop can
\* always take its next step, and the call returns line_count once every
\* record was attempted.
C6_ConversionFailureContained ==
    /\ exception = NoException
    /\ pc \in {"sft_open", "sft_loop", "sft_returned"}
    /\ outcome = "convert_error" => i = failed[Len(failed)].position + 1
    /\ pc = "sft_loop" => Len(failed) + line_count = i - 1
    /\ pc = "sft_returned" =>
          /\ i = Len(converted_dataset[split]) + 1
          /\ Len(failed) + line_count = Len(converted_dataset[split])
          /\ returned = line_count
          /\ returned \in 0 .. Len(converted_dataset[split])
    /\ pc # "sft_returned" => ENABLED NextSft

C6_Witness ==
    /\ pc = "sft_returned"
    /\ Len(converted_dataset[split]) = 2
    /\ failed = <<[position |-> 1, exc |-> KeyError("input")]>>
    /\ returned = 1

\* C7: a write that fails for a record of a split of PreferenceRecords ends
\* the call with the OSError: the call does not return, and no later record of
\* the split is processed.
C7_WriteFailureAbortsSplit ==
    (\A k \in 1 .. Len(converted_dataset[split]) :
        IsPreferenceRecord(converted_dataset[split][k])) =>
    \A k \in 1 .. Len(failed) :
        failed[k].exc = OSError =>
            /\ i <= failed[k].position + 1
            /\ pc # "sft_returned"

\* The write of the first of two records has failed, and the second record
\* has been written all the same.
C7_LaterRecordWritten ==
    /\ Len(converted_dataset[split]) = 2
    /\ failed = <<[position |-> 1, exc |-> OSError]>>
    /\ outcome = "written"
    /\ i = 3
    /\ EndsWith(files[output_path], SftLine(sft_format))

\* C8: the position each error print reports is the 1-based position, within
\* the split, of the record that failed to convert.
C8_ReportedPositionIsOrdinal ==
    failures = 0 =>
        \A k \in 1 .. Len(failed) : ErrorPrints[k].n = failed[k].position

\* C9, as claimed: the conversion fails, and yields no SFT record, for an
\* example whose preferred_output does not hold exactly one message.
C9_OtherLengthsRejected ==
    (/\ outcome # "none"
     /\ failures = 0
     /\ HasKey(example, "preferred_output")
     /\ Len(example["preferred_output"]) # 1) => outcome = "convert_error"

\* C9, amended: the length of preferred_output is not examined.  The
\* conversion fails only for an example that lacks a key; an example whose
\* preferred_output is empty or holds several messages is converted, to
\* input.messages followed by all of preferred_output.
C9_OtherLengthsConverted ==
    /\ outcome = "convert_error" => LacksRequired(example)
    /\ (/\ outcome # "none"
        /\ ~LacksRequired(example)
        /\ Len(example["preferred_output"]) # 1) =>
          /\ Converted
          /\ Len(sft_format["messages"]) =
                Len(example["input"]["messages"]) + Len(example["preferred_output"])
          /\ \A k \in 1 .. Len(example["preferred_output"]) :
                sft_format["messages"][Len(example["input"]["messages"]) + k] =
                    example["preferred_output"][k]
          /\ outcome = "written" => EndsWith(files[output_path], SftLine(sft_format))

C9_Witness ==
    /\ outcome = "written"
    /\ example = PrefEmptyPreferred
    /\ sft_format = [messages |-> <<UserMsg(<<"c", "#">>)>>]
    /\ line_count = 2
    /\ converted_dataset[split][1] = PrefTwoPreferred
    /\ Len(Lines(files[output_path])) = 2

\* C10: the conversion fails with a KeyError for an example that lacks input,
\* input.messages or preferred_output, and it fails on every SFT record it has
\* returned.
C10_MissingKeyFails ==
    /\ (outcome # "none" /\ LacksRequired(example)) =>
          /\ outcome = "convert_error"
          /\ failed[Len(failed)].position = i - 1
          /\ failed[Len(failed)].exc.type = "KeyError"
          /\ Len(ErrorPrints) = Len(failed)
          /\ ErrorPrints[Len(failed)].e = failed[Len(failed)].exc
    /\ Converted => ~convert_preference_to_sft_format(sft_format).ok

C10_Witness ==
    /\ outcome = "convert_error"
    /\ example = SftOfScenario
    /\ failed[Len(failed)].exc = KeyError("input")

\* C11: when a raw example of either split lacks prompt, chosen_response or
\* rejected_response, convert_to_preference_dataset ends with a KeyError at that
\* example: every record built so far comes from an example that has all three
\* fields, nothing is converted at or after the first incomplete example,
\* converted_dataset is never assigned, and nothing runs after the error.
C11_MissingFieldAbortsConversion ==
    /\ \A s \in BothSplits : \A k \in 1 .. Len(dataset[s]) :
          ~(RawKeys \subseteq DOMAIN dataset[s][k]) =>
              /\ Len(converted[s]) < k
              /\ s = "train" => converted["validation"] = <<>>
              /\ converted_dataset = Unbound
              /\ pc \in {"convert", "aborted"}
              /\ files = InitialFiles
    /\ (pc = "aborted" /\ exception.type = "KeyError") =>
          /\ i <= Len(dataset[split])
          /\ ~(RawKeys \subseteq DOMAIN dataset[split][i])
          /\ exception.key \in RawKeys \ DOMAIN dataset[split][i]
          /\ Len(converted[split]) = i - 1
          /\ converted_dataset = Unbound
          /\ ~ENABLED Next

\* The second validation example lacks a field, after a train example and a
\* validation example were converted.
C11_Witness ==
    /\ pc = "aborted"
    /\ exception.type = "KeyError"
    /\ split = "validation"
    /\ i = 2
    /\ Len(converted["train"]) = 1
    /\ Len(converted["validation"]) = 1
    /\ converted_dataset = Unbound

\* C12: while process_preference_to_sft runs, line_count is the number of
\* complete lines in the sink, which is the number of records processed less
\* the number that failed; the count returned, printed and kept for the split
\* is the number of lines of the split's file.  When no write has failed, each
\* of these lines is the JSON text of a record that was converted.
C12_LineCountIsLinesWritten ==
    /\ pc \in {"sft_loop", "sft_returned"} =>
          /\ line_count = Len(Lines(files[output_path]))
          /\ line_count = (i - 1) - Len(failed)
          /\ (\A k \in 1 .. Len(failed) : failed[k].exc # OSError) =>
                \A j \in 1 .. line_count :
                    \E k \in 1 .. i - 1 :
                        LET r == convert_preference_to_sft_format(
                                     converted_dataset[split][k])
                        IN  r.ok /\ Lines(files[output_path])[j] = DumpsSft(r.value)
    /\ pc = "sft_returned" =>
          /\ returned = Len(Lines(files[output_path]))
          /\ stdout[Len(stdout)] = Summary(returned, split, output_path)
    /\ pc = "done" =>
          \A s \in BothSplits : sft_count[s] = Len(Lines(files[SftPath(s)]))

\* A call on two records has returned 1: one record failed, the other is the
\* file's only line.
C12_Witness ==
    /\ pc = "sft_returned"
    /\ Len(converted_dataset[split]) = 2
    /\ Len(failed) = 1
    /\ returned = 1
    /\ Len(Lines(files[output_path])) = 1

\* C13: when the data preparation has run to its end there are four files, one
\* for each format and split.  The lines of a preference file are the JSON
\* texts of the preference records of its own split's examples, one each, in
\* order; every line of an SFT file ends with the JSON text of the SFT record
\* of an example of its own split (it is that text, one line per example in
\* order, when no write failed), and the file has as many lines as were
\* counted.  No line of an SFT file is the text of a preference record and no
\* line of a preference file is the text of an SFT record.
C13_FourFilesOwnFormatOwnSplit ==
    pc = "done" =>
        /\ DOMAIN files = Paths
        /\ Cardinality(DOMAIN files) = 4
        /\ \A s \in BothSplits :
              LET P == Lines(files[OutputFile("preference", s)])
                  L == Lines(files[OutputFile("sft", s)])
                  n == Len(dataset[s])
              IN  /\ P = [k \in 1 .. n |-> DumpsPreference(PreferenceOf(s, k))]
                  /\ Len(L) = sft_count[s]
                  /\ \A j \in 1 .. Len(L) :
                        \E k \in 1 .. n : EndsWith(L[j], DumpsSft(SupervisedOf(s, k)))
                  /\ failures = 0 => L = [k \in 1 .. n |-> DumpsSft(SupervisedOf(s, k))]
                  /\ \A t \in BothSplits : \A k \in 1 .. Len(dataset[t]) :
                        /\ \A j \in 1 .. Len(L) : L[j] # DumpsPreference(PreferenceOf(t, k))
                        /\ \A j \in 1 .. Len(P) : P[j] # DumpsSft(SupervisedOf(t, k))

\* The run is over with different examples in the two splits, and each file
\* holds the line of its own split only.
C13_Witness ==
    /\ pc = "done"
    /\ failures = 0
    /\ dataset = [train |-> <<RawScenario>>, validation |-> <<RawEmpty>>]
    /\ Lines(files[sft_train_output_path]) = <<DumpsSft(SftOfScenario)>>
    /\ Lines(files[dpo_validation_file_path])
           = <<DumpsPreference(PreferenceFormat(RawEmpty).value)>>
    /\ Len(Lines(files[sft_validation_output_path])) = 1

\* C14: no step changes a record that exists: the raw examples stay as they
\* were loaded, and once converted_dataset is assigned its records (their
\* input.messages, preferred_output and non_preferred_output) stay as
\* convert_to_preference_dataset built them, through the write loops and the
\* SFT step.
C14_NoRecordMutated ==
    [][/\ dataset' = dataset
       /\ converted_dataset # Unbound => converted_dataset' = converted_dataset
       /\ \A s \in BothSplits : \A k \in 1 .. Len(converted[s]) :
             converted'[s][k] = converted[s][k]]_vars

\* The SFT step has processed both splits, and the raw examples and the
\* preference records are those of the start.
C14_Witness ==
    /\ pc = "done"
    /\ sft_count = [train |-> 1, validation |-> 1]
    /\ dataset = [train |-> <<RawScenario>>, validation |-> <<RawEmpty>>]
    /\ converted_dataset["train"] = <<PrefScenario>>
    /\ converted_dataset["validation"] = <<PreferenceFormat(RawEmpty).value>>

\* C15: every preference record that convert_to_preference_dataset built and
\* the write loop has written is read back from its line of the file as a
\* record equal to it: the same keys, the same messages in the same order,
\* the same role and content.
C15_PreferenceRoundTrip ==
    (pc = "pref_write" /\ i > 1) =>
        LET written == Lines(files[DpoPath(split)])
            record == converted_dataset[split][i - 1]
        IN  /\ Len(written) = i - 1
            /\ Loads(written[i - 1]) = Return(record)
            /\ Loads(DumpsPreference(record)) = Return(record)
            /\ DOMAIN Loads(written[i - 1]).value = DOMAIN record

\* The record whose content holds a quote, a newline and a backslash has been
\* written, and its line reads back as the record.
C15_Witness ==
    /\ pc = "pref_write"
    /\ split = "train"
    /\ i = 2
    /\ converted_dataset["train"][1] = PrefScenario
    /\ Loads(Lines(files[dpo_train_file_path])[1]).value["preferred_output"][1]["content"]
          = <<"C", QUOTE, NL>>

\* C16: when process_preference_to_sft has returned, the sink holds one line
\* for each record of the split that converts, in the split's order, each the
\* JSON text of its SFT record, and nothing else; the count returned is the
\* number of these records.
C16_SinkIsConvertedRecords ==
    pc = "sft_returned" =>
        /\ Lines(files[output_path])
              = [j \in 1 .. Len(Convertible) |->
                    DumpsSft(convert_preference_to_sft_format(Convertible[j]).value)]
        /\ files[output_path] = <<>> \/ files[output_path][Len(files[output_path])] = NL
        /\ returned = Len(Convertible)

\* A record that converts has left part of its line in the sink, in front of
\* the line of the record after it, and the call has returned.
C16_PartialLineInSink ==
    /\ pc = "sft_returned"
    /\ Len(converted_dataset[split]) = 2
    /\ Len(Convertible) = 2
    /\ returned = 1
    /\ Len(Lines(files[output_path])) = 1
    /\ Lines(files[output_path])[1] # DumpsSft(sft_format)
    /\ EndsWith(Lines(files[output_path])[1], DumpsSft(sft_format))

\* C17: while process_preference_to_sft runs, the progress messages printed so
\* far are, for the train split, one for each positive multiple of 2000 that
\* line_count has reached, naming that multiple, and for the validation split
\* none.  An iteration that wrote a record and brought line_count to such a
\* multiple on the train split has the message as its print; any other
\* iteration that wrote a record added no message, and an iteration that
\* failed printed the error and no progress message.
C17_ProgressEvery2000OnTrain ==
    pc \in {"sft_loop", "sft_returned"} =>
        /\ ProgressPrints =
              IF split = "train"
              THEN [j \in 1 .. (line_count \div 2000) |-> Progress(2000 * j)]
              ELSE <<>>
        /\ pc = "sft_loop" =>
              /\ (outcome = "written" /\ line_count % 2000 = 0 /\ split = "train") =>
                    stdout[Len(stdout)] = Progress(line_count)
              /\ (outcome = "written" /\ (line_count % 2000 # 0 \/ split # "train")) =>
                    Len(ProgressPrints) = (IF split = "train" THEN (line_count - 1) \div 2000
                                           ELSE 0)
              /\ outcome \in {"convert_error", "write_error"} =>
                    IsErrorPrint(stdout[Len(stdout)])

\* The 2000th record of the train split has just been written, after a record
\* that failed, and the progress message is the latest print.
C17_Witness ==
    /\ pc = "sft_loop"
    /\ split = "train"
    /\ line_count = 2000
    /\ outcome = "written"
    /\ Len(failed) = 1
    /\ stdout[Len(stdout)] = Progress(2000)

\* C18: every DPO job that continues the SFT training was submitted after an
\* SFT job was created and after both preference files were uploaded: its
\* from_checkpoint is the id of an SFT job the service created before it, its
\* training file is an upload of the preference train file and its
\* validation file an upload of the preference validation file, both made
\* before it, and neither is the id of an uploaded SFT file.
C18_DpoContinuesSftJob ==
    \A k \in 1 .. Len(service.jobs) :
        LET job == service.jobs[k] IN
        job.suffix = "helpsteer2_dpo_training_continuing_sft" =>
            /\ job.training_method = "dpo"
            /\ \E m \in 1 .. k - 1 :
                  /\ service.jobs[m].id = job.from_checkpoint
                  /\ service.jobs[m].id < job.id
                  /\ service.jobs[m].suffix = "helpsteer2_sft_training"
                  /\ service.jobs[m].training_method = "sft"
            /\ \E a, b \in 1 .. Len(service.files) :
                  /\ service.files[a].id = job.training_file
                  /\ service.files[a].filename = dpo_train_file_path
                  /\ service.files[a].id < job.id
                  /\ service.files[b].id = job.validation_file
                  /\ service.files[b].filename = dpo_validation_file_path
                  /\ service.files[b].id < job.id
            /\ \A a \in 1 .. Len(service.files) :
                  service.files[a].filename
                        \in {sft_train_output_path, sft_validation_output_path}
                    => service.files[a].id \notin {job.training_file, job.validation_file}

\* The continuing DPO job has been created, after a direct DPO job that the
\* service created later than the SFT job.
C18_Witness ==
    /\ "dpo_training_from_sft" \in DOMAIN names
    /\ "dpo_training" \in DOMAIN names
    /\ names["dpo_training"].id > names["sft_training"].id
    /\ names["dpo_training_from_sft"].id > names["dpo_training"].id
    /\ names["dpo_training_from_sft"].from_checkpoint = names["sft_training"].id
    /\ names["dpo_training_from_sft"] = service.jobs[Len(service.jobs)]

\* C19: process_preference_to_sft opens its file for writing, which empties
\* it: when the loop starts the file holds nothing of an earlier run or of
\* before, and at every step it holds line_count lines.  After a second call
\* with the same arguments in which the same iterations raised as in the
\* first, the count returned is that of the first call and the file has the
\* lines of one call; when no write failed, the file is character for
\* character what the first call left.
C19_RerunIdempotentOnSink ==
    /\ (pc = "sft_loop" /\ i = 1) => files[output_path] = <<>>
    /\ pc \in {"sft_loop", "sft_returned"} =>
          Len(Lines(files[output_path])) = line_count
    /\ (pc = "sft_returned" /\ previous # Unbound /\ previous.failed = failed) =>
          /\ returned = previous.returned
          /\ Len(Lines(files[output_path])) = Len(Lines(previous.content))
          /\ failures = 0 => files[output_path] = previous.content

\* The second call on a split of a record that converts and one that does
\* not has returned 1, as the first did, and the file is as the first left it.
C19_Witness ==
    /\ pc = "sft_returned"
    /\ previous # Unbound
    /\ Len(converted_dataset[split]) = 2
    /\ Len(failed) = 1
    /\ failures = 0
    /\ previous.returned = 1
    /\ returned = 1
    /\ previous.content # <<>>
    /\ files[output_path] = previous.content

=============================================================================
